---- MODULE Spec2Model ----
(***************************************************************************)
(* Model of the padding middleware (package padding): the pre-generated    *)
(* pool, randInt, getPaddingSlice, the installation-time normalisation of  *)
(* ToukaPadding / ToukaPaddingS, the client closures and the               *)
(* paddingResponseWriter with its WriteHeader / Write entry points.        *)
(***************************************************************************)
EXTENDS Integers, Sequences, FiniteSets, TLC

(***************************************************************************)
(* Program constants                                                       *)
(***************************************************************************)

\* padding.go:17
maxPaddingSize == 4096

\* padding.go:19, the string "X" as the sequence of its bytes
paddingCharset == <<"X">>

\* Go's int on the 32-bit targets (GOARCH=386, arm): 32 bits, two's
\* complement.  On the 64-bit targets the same arithmetic wraps at 2^63.
MaxInt == 2147483647

MinInt == -MaxInt - 1

\* net/http: http.StatusOK, used at paddings.go:52
StatusOK == 200

(***************************************************************************)
(* Bounds of the model                                                     *)
(***************************************************************************)

\* The entropy source is an input: of the n values rand.Int(rand.Reader, n)
\* can return, the model draws the MaxDraw lowest and the MaxDraw highest.
MaxDraw == 1

\* Goroutines that may call into one paddingResponseWriter at the same time.
NumCallers == 2

\* Calls (WriteHeader or Write) made on one paddingResponseWriter.
MaxCalls == 2

Callers == 1..NumCallers

NIL == "nil"

(***************************************************************************)
(* int arithmetic: Go wraps on overflow                                    *)
(***************************************************************************)

\* a - b in int
WrapSub(a, b) ==
    IF b < 0 /\ a > MaxInt + b THEN (a + MinInt) - (b - MinInt)
    ELSE IF b > 0 /\ a < MinInt + b THEN ((a - MinInt) + (MaxInt - b)) + 1
    ELSE a - b

\* a + b in int
WrapAdd(a, b) ==
    IF b > 0 /\ a > MaxInt - b THEN (a + MinInt) + (b + MinInt)
    ELSE IF b < 0 /\ a < MinInt - b THEN (a - MinInt) + (b - MinInt)
    ELSE a + b

(***************************************************************************)
(* Byte strings                                                            *)
(*                                                                         *)
(* A []byte or string is kept as its runs: the sequence of [b, n] with b   *)
(* a byte and n >= 1 the number of times it repeats, adjacent runs of      *)
(* different bytes.  <<[b |-> "X", n |-> 3]>> is "XXX".                    *)
(***************************************************************************)

RECURSIVE RunLen(_)
\* len(s)
RunLen(s) == IF s = <<>> THEN 0 ELSE Head(s).n + RunLen(Tail(s))

RECURSIVE RunSlice(_, _, _)
\* s[lo:hi] for 0 <= lo <= hi <= len(s)
RunSlice(s, lo, hi) ==
    IF s = <<>> \/ hi <= 0 THEN <<>>
    ELSE LET h == Head(s)
             a == IF lo > 0 THEN lo ELSE 0
             b == IF hi < h.n THEN hi ELSE h.n
         IN  (IF a < b THEN <<[b |-> h.b, n |-> b - a]>> ELSE <<>>)
                 \o RunSlice(Tail(s), lo - h.n, hi - h.n)

RECURSIVE RunsFrom(_, _, _)
\* The runs of bytes i..last of the byte array f
RunsFrom(f, i, last) ==
    IF i > last THEN <<>>
    ELSE LET later == {k \in (i + 1)..last : f[k] # f[i]}
             j == IF later = {} THEN last + 1
                  ELSE CHOOSE k \in later : \A m \in later : k <= m
         IN  <<[b |-> f[i], n |-> j - i]>> \o RunsFrom(f, j, last)

(***************************************************************************)
(* crypto/rand                                                             *)
(***************************************************************************)

\* The values the model lets rand.Int(rand.Reader, n) return, out of [0, n).
Draws(n) ==
    (0..((IF n < MaxDraw THEN n ELSE MaxDraw) - 1))
        \cup ((IF n > MaxDraw THEN n - MaxDraw ELSE 0)..(n - 1))

\* randInt that swaps its bounds when min > max
randInt_Swap(min, max) ==
    LET lo == IF min > max THEN max ELSE min
        hi == IF min > max THEN min ELSE max
    IN  IF lo = hi
            THEN {[kind |-> "ok", val |-> lo, drew |-> FALSE, reader |-> FALSE]}
        ELSE LET n == WrapAdd(WrapSub(hi, lo), 1)
             IN  IF n <= 0
                     THEN {[kind |-> "panic", val |-> 0, drew |-> FALSE,
                            reader |-> FALSE]}
                     ELSE {[kind |-> "ok", val |-> WrapAdd(d, lo), drew |-> TRUE,
                            reader |-> FALSE] : d \in Draws(n)}
                          \cup {[kind |-> "err", val |-> 0, drew |-> TRUE,
                                 reader |-> TRUE]}

\* randInt without the min == max shortcut of lines 81-83
randInt_NoShortcut(min, max) ==
    IF min > max
        THEN {[kind |-> "err", val |-> 0, drew |-> FALSE, reader |-> FALSE]}
    ELSE LET n == WrapAdd(WrapSub(max, min), 1)
         IN  IF n <= 0
                 THEN {[kind |-> "panic", val |-> 0, drew |-> FALSE, reader |-> FALSE]}
                 ELSE {[kind |-> "ok", val |-> WrapAdd(d, min), drew |-> TRUE,
                        reader |-> FALSE] : d \in Draws(n)}
                      \cup {[kind |-> "err", val |-> 0, drew |-> TRUE, reader |-> TRUE]}

\* randInt(min, max), padding.go:77-90: the set of its outcomes.
\*   kind "ok"    : returned (val, nil)
\*   kind "err"   : returned (0, err); reader tells whether rand.Reader failed
\*   kind "panic" : rand.Int panics on an argument <= 0
\* drew tells whether the entropy source was consulted.
randInt(min, max) ==
    IF min > max
        THEN {[kind |-> "err", val |-> 0, drew |-> FALSE, reader |-> FALSE]}
    ELSE IF min = max
        THEN {[kind |-> "ok", val |-> min, drew |-> FALSE, reader |-> FALSE]}
    ELSE LET n == WrapAdd(WrapSub(max, min), 1)
         IN  IF n <= 0
                 THEN {[kind |-> "panic", val |-> 0, drew |-> FALSE, reader |-> FALSE]}
                 ELSE {[kind |-> "ok", val |-> WrapAdd(d, min), drew |-> TRUE,
                        reader |-> FALSE] : d \in Draws(n)}
                      \cup {[kind |-> "err", val |-> 0, drew |-> TRUE, reader |-> TRUE]}

(***************************************************************************)
(* Inputs                                                                  *)
(***************************************************************************)

\* opts.HeaderName as given by the caller ("" asks for the default)
HeaderNameArgs == {"", "X-Pad", "x-pad"}

\* MinLength / MaxLength of a caller-made profile
LengthArgs == {-3, 0, 2, 10, 5000}

\* The profile objects of the process: the three package-level presets and
\* one profile object made by the caller.
Presets == {"ProfileDefault", "ProfileShort", "ProfileLong"}

ProfilePtrs == Presets \cup {"custom"}

\* opts.Profile as given by the caller: nil, the address of a preset, or the
\* address of a caller-made profile with the given fields.
ProfileArgs ==
    {[ptr |-> NIL, MinLength |-> 0, MaxLength |-> 0]}
        \cup {[ptr |-> p, MinLength |-> 0, MaxLength |-> 0] : p \in Presets}
        \cup {[ptr |-> "custom", MinLength |-> a, MaxLength |-> b] :
                a \in LengthArgs, b \in LengthArgs}

\* Canonical header keys that occur in the model's header collections.
HeaderKeys == {"T-Padding", "X-Pad", "Content-Type"}

EmptyHeader == [k \in HeaderKeys |-> <<>>]

\* A header value that is already there: two values under the padding names
\* (as left by Header.Add) and one other header.
OldValue == <<[b |-> "a", n |-> 5]>>

UsedHeader ==
    [k \in HeaderKeys |->
        IF k = "Content-Type" THEN <<OldValue>> ELSE <<OldValue, OldValue>>]

\* req.Header of an outbound request as it reaches the middleware: a nil map,
\* an empty map or a map with entries.
NilHeader == [nil |-> TRUE, m |-> EmptyHeader]

ReqHeaders ==
    {NilHeader, [nil |-> FALSE, m |-> EmptyHeader], [nil |-> FALSE, m |-> UsedHeader]}

\* Header() of the wrapped response writer when the wrapper is made
RespHeaders == {EmptyHeader, UsedHeader}

\* Status codes a handler passes to WriteHeader
StatusCodes == {StatusOK, 404}

\* Body chunks a handler passes to Write
Bodies == {"data"}

(***************************************************************************)
(* net/http Header                                                         *)
(***************************************************************************)

\* textproto.CanonicalMIMEHeaderKey on the names of the model
CanonicalMIMEHeaderKey(s) == IF s = "x-pad" THEN "X-Pad" ELSE s

\* Header.Set that appends like Header.Add
HeaderSet_Add(h, key, value) ==
    [h EXCEPT ![CanonicalMIMEHeaderKey(key)] = Append(@, value)]

\* http.Header.Set: the key is canonicalised, the values are replaced
HeaderSet(h, key, value) ==
    [h EXCEPT ![CanonicalMIMEHeaderKey(key)] = <<value>>]

\* http.Header.Values
HeaderValues(h, key) == h[CanonicalMIMEHeaderKey(key)]

(***************************************************************************)
(* State                                                                   *)
(***************************************************************************)

VARIABLES
    precomputedPaddingData, \* padding.go:25, the pool
    profiles,               \* the profile objects, by address
    mw,                     \* the installed middleware: kind and its opts
    given,                  \* the opts.Profile argument of the installation
    req,                    \* the outbound request last processed
    prw,                    \* the response wrapper: wroteHeader, mu
    header,                 \* Header() of the wrapped response writer
    log,                    \* calls received by the wrapped response writer
    pc,                     \* per caller: position in WriteHeader / Write
    loc,                    \* per caller: arguments and locals
    hist,                   \* calls made on the wrapper, in start order
    synced,                 \* callers that acquired mu after wroteHeader was set
    ri,                     \* the last direct call of randInt: arguments, outcome
    gs,                     \* the last direct call of getPaddingSlice
    each                    \* per request: its own response wrapper and handler

vars ==
    <<precomputedPaddingData, profiles, mw, given, req, prw, header, log, pc,
      loc, hist, synced, ri, gs, each>>

respVars == <<prw, header, log, pc, loc, hist, synced>>

(***************************************************************************)
(* The pool                                                                *)
(***************************************************************************)

\* init(), padding.go:28-39: every byte is paddingCharset[randIndex] with
\* randIndex drawn from [0, len(paddingCharset)); a failed draw panics and the
\* process never starts.  The pools init can leave, as runs.
PoolInit ==
    {RunsFrom(f, 1, maxPaddingSize) :
        f \in [(1..maxPaddingSize) ->
                  {paddingCharset[i + 1] : i \in 0..(Len(paddingCharset) - 1)}]}

\* No call of getPaddingSlice yet
NoView == [kind |-> NIL, data |-> <<>>, start |-> 0, fell |-> FALSE]

\* getPaddingSlice with maxStart taken as the capacity, not capacity - length
getPaddingSlice_WideStart(length) ==
    IF length <= 0
        THEN {[kind |-> "ok", data |-> <<>>, start |-> 0, fell |-> FALSE]}
    ELSE LET len == IF length > maxPaddingSize THEN maxPaddingSize ELSE length
             maxStart == maxPaddingSize
             view(start) == RunSlice(precomputedPaddingData, start, start + len)
         IN  {IF o.kind = "panic"
                  THEN [kind |-> "panic", data |-> <<>>, start |-> 0, fell |-> FALSE]
              ELSE IF o.kind = "err"
                  THEN [kind |-> "ok", data |-> view(0), start |-> 0, fell |-> TRUE]
              ELSE [kind |-> "ok", data |-> view(o.val), start |-> o.val,
                    fell |-> FALSE] : o \in randInt(0, maxStart)}

\* getPaddingSlice that gives up (returns nil) when the offset draw fails
getPaddingSlice_NilOnErr(length) ==
    IF length <= 0
        THEN {[kind |-> "ok", data |-> <<>>, start |-> 0, fell |-> FALSE]}
    ELSE LET len == IF length > maxPaddingSize THEN maxPaddingSize ELSE length
             maxStart == maxPaddingSize - len
             view(start) == RunSlice(precomputedPaddingData, start, start + len)
         IN  {IF o.kind = "panic"
                  THEN [kind |-> "panic", data |-> <<>>, start |-> 0, fell |-> FALSE]
              ELSE IF o.kind = "err"
                  THEN [kind |-> "ok", data |-> <<>>, start |-> 0, fell |-> TRUE]
              ELSE [kind |-> "ok", data |-> view(o.val), start |-> o.val,
                    fell |-> FALSE] : o \in randInt(0, maxStart)}

\* getPaddingSlice(length), padding.go:93-106: the set of its outcomes.
\* data is the slice, start its offset in the pool, fell whether the offset
\* draw failed and start fell back to 0.
getPaddingSlice(length) ==
    IF length <= 0
        THEN {[kind |-> "ok", data |-> <<>>, start |-> 0, fell |-> FALSE]}
    ELSE LET len == IF length > maxPaddingSize THEN maxPaddingSize ELSE length
             maxStart == maxPaddingSize - len
             view(start) == RunSlice(precomputedPaddingData, start, start + len)
         IN  {IF o.kind = "panic"
                  THEN [kind |-> "panic", data |-> <<>>, start |-> 0, fell |-> FALSE]
              ELSE IF o.kind = "err"
                  THEN [kind |-> "ok", data |-> view(0), start |-> 0, fell |-> TRUE]
              ELSE [kind |-> "ok", data |-> view(o.val), start |-> o.val,
                    fell |-> FALSE] : o \in randInt(0, maxStart)}

(***************************************************************************)
(* Installation                                                            *)
(***************************************************************************)

\* ClampProfile with a ceiling of 1024 for MaxLength
ClampProfile_Cap1024(p) ==
    LET p1 == IF p.MaxLength > 1024 THEN [p EXCEPT !.MaxLength = 1024] ELSE p
        p2 == IF p1.MinLength < 0 THEN [p1 EXCEPT !.MinLength = 0] ELSE p1
    IN  IF p2.MinLength > p2.MaxLength
            THEN [p2 EXCEPT !.MinLength = p2.MaxLength] ELSE p2

\* ClampProfile without its last statement (MinLength > MaxLength)
ClampProfile_NoSwap(p) ==
    LET p1 == IF p.MaxLength > maxPaddingSize
                  THEN [p EXCEPT !.MaxLength = maxPaddingSize] ELSE p
    IN  IF p1.MinLength < 0 THEN [p1 EXCEPT !.MinLength = 0] ELSE p1

\* The range validation of the installers, paddings.go:71-83 (the same
\* statements at padding.go:128-140 and part_000:21-33).
ClampProfile(p) ==
    LET p1 == IF p.MaxLength > maxPaddingSize
                  THEN [p EXCEPT !.MaxLength = maxPaddingSize] ELSE p
        p2 == IF p1.MinLength < 0 THEN [p1 EXCEPT !.MinLength = 0] ELSE p1
    IN  IF p2.MinLength > p2.MaxLength
            THEN [p2 EXCEPT !.MinLength = p2.MaxLength] ELSE p2

\* The three installers share their first part: defaults, then the range
\* validation, which writes through opts.Profile into the profile object.
Install(kind, name, parg) ==
    LET ptr == IF parg.ptr = NIL THEN "ProfileDefault" ELSE parg.ptr
        obj == IF parg.ptr = "custom"
                   THEN [MinLength |-> parg.MinLength, MaxLength |-> parg.MaxLength]
                   ELSE profiles[ptr]
    IN  /\ mw.kind = NIL
        /\ profiles' = [profiles EXCEPT ![ptr] = ClampProfile(obj)]
        /\ mw' = [kind |-> kind,
                  HeaderName |-> IF name = "" THEN "T-Padding" ELSE name,
                  Profile |-> ptr]
        /\ given' = parg
        /\ UNCHANGED <<precomputedPaddingData, ri, gs, each, req>>
        /\ UNCHANGED respVars

\* ToukaPadding(opts), padding.go:119-165 (httpc round-tripper middleware)
ToukaPadding(name, parg) == Install("RoundTripper", name, parg)

\* ToukaPadding(opts), part_000:12-62 (httpc handler middleware)
ToukaPaddingH(name, parg) == Install("Handler", name, parg)

\* ToukaPaddingS(opts), paddings.go:63-97
ToukaPaddingS(name, parg) == Install("Server", name, parg)

\* The installed options, as the closures read them
optsProfile == profiles[mw.Profile]

(***************************************************************************)
(* The client closures                                                     *)
(***************************************************************************)

NoSlice == [used |-> FALSE, start |-> 0, fell |-> FALSE]

\* The round-tripper closure with "paddingLen >= 0" for "paddingLen > 0"
RoundTripperFunc_SetEmpty(h) ==
    UNION {
        IF o.kind # "ok"
            THEN {[in |-> h, Header |-> h, draw |-> o, slice |-> NoSlice,
                   next |-> IF o.kind = "panic" THEN 0 ELSE 1]}
        ELSE IF o.val >= 0
            THEN {[in |-> h,
                   Header |-> [nil |-> FALSE,
                               m |-> HeaderSet(h.m, mw.HeaderName, s.data)],
                   draw |-> o,
                   slice |-> [used |-> TRUE, start |-> s.start, fell |-> s.fell],
                   next |-> 1] : s \in getPaddingSlice(o.val)}
        ELSE {[in |-> h, Header |-> h, draw |-> o, slice |-> NoSlice, next |-> 1]}
        : o \in randInt(optsProfile.MinLength, optsProfile.MaxLength)}

\* One outbound request through the closure of padding.go:144-163: the set of
\* its outcomes for a request that arrives with header collection h.
\*   in     : req.Header on entry        Header : req.Header on exit
\*   draw   : what randInt returned      slice  : what getPaddingSlice did
\*   next   : calls of next.RoundTrip(req)
RoundTripperFunc(h) ==
    UNION {
        IF o.kind = "panic"
            THEN {[in |-> h, Header |-> h, draw |-> o, slice |-> NoSlice, next |-> 0]}
        ELSE IF o.kind = "err"
            THEN {[in |-> h, Header |-> h, draw |-> o, slice |-> NoSlice, next |-> 1]}
        ELSE IF o.val > 0
            THEN {IF s.kind = "panic"
                      THEN [in |-> h, Header |-> h, draw |-> o, slice |-> NoSlice,
                            next |-> 0]
                      ELSE [in |-> h,
                            Header |-> [nil |-> FALSE,
                                        m |-> HeaderSet(h.m, mw.HeaderName, s.data)],
                            draw |-> o,
                            slice |-> [used |-> TRUE, start |-> s.start, fell |-> s.fell],
                            next |-> 1] : s \in getPaddingSlice(o.val)}
        ELSE {[in |-> h, Header |-> h, draw |-> o, slice |-> NoSlice, next |-> 1]}
        : o \in randInt(optsProfile.MinLength, optsProfile.MaxLength)}

\* One outbound request through the closure of part_000:38-60; next counts
\* the calls of next.ServeHTTP(w, r).
HandlerFunc(h) ==
    UNION {
        IF o.kind = "panic"
            THEN {[in |-> h, Header |-> h, draw |-> o, slice |-> NoSlice, next |-> 0]}
        ELSE IF o.kind = "err"
            THEN {[in |-> h, Header |-> h, draw |-> o, slice |-> NoSlice, next |-> 1]}
        ELSE IF o.val > 0
            THEN {IF s.kind = "panic"
                      THEN [in |-> h, Header |-> h, draw |-> o, slice |-> NoSlice,
                            next |-> 0]
                      ELSE [in |-> h,
                            Header |-> [nil |-> FALSE,
                                        m |-> HeaderSet(h.m, mw.HeaderName, s.data)],
                            draw |-> o,
                            slice |-> [used |-> TRUE, start |-> s.start, fell |-> s.fell],
                            next |-> 1] : s \in getPaddingSlice(o.val)}
        ELSE {[in |-> h, Header |-> h, draw |-> o, slice |-> NoSlice, next |-> 1]}
        : o \in randInt(optsProfile.MinLength, optsProfile.MaxLength)}

\* A request is sent through the round-tripper middleware.
RoundTrip(h) ==
    /\ mw.kind = "RoundTripper"
    /\ req' \in {[seen |-> TRUE] @@ x : x \in RoundTripperFunc(h)}
    /\ UNCHANGED <<precomputedPaddingData, ri, gs, each, profiles, mw, given>>
    /\ UNCHANGED respVars

\* A request is sent through the handler middleware.
ServeHTTP(h) ==
    /\ mw.kind = "Handler"
    /\ req' \in {[seen |-> TRUE] @@ x : x \in HandlerFunc(h)}
    /\ UNCHANGED <<precomputedPaddingData, ri, gs, each, profiles, mw, given>>
    /\ UNCHANGED respVars

(***************************************************************************)
(* The response wrapper                                                    *)
(***************************************************************************)

NoDraw == [kind |-> NIL, val |-> 0, drew |-> FALSE, reader |-> FALSE]

\* The arguments and locals of a call in flight; call is its place in hist.
NoLocals == [call |-> 0, statusCode |-> 0, data |-> "", ret |-> "", draw |-> NoDraw]

\* A call on the wrapper as hist records it: the entry point and its status
\* code argument, then what the call drew and sliced, and whether it returned.
Call(op, code) ==
    [op |-> op, code |-> code, draw |-> NoDraw, slice |-> NoSlice, returned |-> FALSE]

\* Handler that makes the wrapper with wroteHeader already true
Handler_Written(h, cs) ==
    /\ mw.kind = "Server"
    /\ ~prw.live
    /\ prw' = [live |-> TRUE, wroteHeader |-> TRUE, mu |-> 0, callers |-> cs,
               header0 |-> h]
    /\ header' = h
    /\ log' = <<>>
    /\ UNCHANGED <<precomputedPaddingData, ri, gs, each, profiles, mw, given, req, pc, loc, hist,
                   synced>>

\* The closure of paddings.go:85-96: a request arrives, the writer is wrapped
\* (wroteHeader false, mu unlocked) and c.Next() runs the handlers, which are
\* the callers cs of the wrapper.
Handler(h, cs) ==
    /\ mw.kind = "Server"
    /\ ~prw.live
    /\ prw' = [live |-> TRUE, wroteHeader |-> FALSE, mu |-> 0, callers |-> cs,
               header0 |-> h]
    /\ header' = h
    /\ log' = <<>>
    /\ UNCHANGED <<precomputedPaddingData, ri, gs, each, profiles, mw, given, req, pc, loc, hist,
                   synced>>

\* Where a WriteHeader call returns to: its caller's code, or line 57 of Write.
ReturnPc(t) == IF loc[t].ret = "Write" THEN "w_body" ELSE "idle"

ReturnLoc(t) == IF loc[t].ret = "Write" THEN [loc[t] EXCEPT !.ret = ""] ELSE NoLocals

\* hist with the call of t marked as returned, when WriteHeader returns to
\* the handler.
ReturnHist(t) ==
    IF loc[t].ret = "Write" THEN hist ELSE [hist EXCEPT ![loc[t].call].returned = TRUE]

\* A handler calls prw.WriteHeader(code).
CallWriteHeader(t, code) ==
    /\ prw.live /\ t \in prw.callers
    /\ pc[t] = "idle"
    /\ Len(hist) < MaxCalls
    /\ pc' = [pc EXCEPT ![t] = "wh_lock"]
    /\ loc' = [loc EXCEPT ![t] =
                  [NoLocals EXCEPT !.statusCode = code, !.call = Len(hist) + 1]]
    /\ hist' = Append(hist, Call("WriteHeader", code))
    /\ UNCHANGED <<precomputedPaddingData, ri, gs, each, profiles, mw, given, req, prw, header,
                   log, synced>>

\* A handler calls prw.Write(data).
CallWrite(t, data) ==
    /\ prw.live /\ t \in prw.callers
    /\ pc[t] = "idle"
    /\ Len(hist) < MaxCalls
    /\ pc' = [pc EXCEPT ![t] = "w_fast"]
    /\ loc' = [loc EXCEPT ![t] = [NoLocals EXCEPT !.data = data, !.call = Len(hist) + 1]]
    /\ hist' = Append(hist, Call("Write", 0))
    /\ UNCHANGED <<precomputedPaddingData, ri, gs, each, profiles, mw, given, req, prw, header,
                   log, synced>>

\* paddings.go:23, prw.mu.Lock()
WH_Lock(t) ==
    /\ pc[t] = "wh_lock"
    /\ prw.mu = 0
    /\ prw' = [prw EXCEPT !.mu = t]
    /\ synced' = IF prw.wroteHeader THEN synced \cup {t} ELSE synced
    /\ pc' = [pc EXCEPT ![t] = "wh_check"]
    /\ UNCHANGED <<precomputedPaddingData, ri, gs, each, profiles, mw, given, req, header, log,
                   loc, hist>>

\* WH_Check without the assignment of line 28: the flag is never set.
WH_Check_NoSet(t) ==
    /\ pc[t] = "wh_check"
    /\ prw' = [prw EXCEPT !.mu = 0]
    /\ pc' = [pc EXCEPT ![t] = "wh_sample"]
    /\ UNCHANGED <<precomputedPaddingData, ri, gs, each, profiles, mw, given, req, header, log,
                   loc, hist, synced>>

\* WH_Check without the test of line 24: every call goes on to write.
WH_Check_NoTest(t) ==
    /\ pc[t] = "wh_check"
    /\ prw' = [prw EXCEPT !.wroteHeader = TRUE, !.mu = 0]
    /\ pc' = [pc EXCEPT ![t] = "wh_sample"]
    /\ synced' = {t}
    /\ UNCHANGED <<precomputedPaddingData, ri, gs, each, profiles, mw, given, req, header, log,
                   loc, hist>>

\* WH_Check that keeps mu locked after setting the flag, as with a deferred
\* Unlock
WH_Check_KeepLock(t) ==
    /\ pc[t] = "wh_check"
    /\ IF prw.wroteHeader
           THEN /\ prw' = [prw EXCEPT !.mu = 0]
                /\ pc' = [pc EXCEPT ![t] = ReturnPc(t)]
                /\ loc' = [loc EXCEPT ![t] = ReturnLoc(t)]
                /\ hist' = ReturnHist(t)
                /\ UNCHANGED synced
           ELSE /\ prw' = [prw EXCEPT !.wroteHeader = TRUE]
                /\ pc' = [pc EXCEPT ![t] = "wh_sample"]
                /\ synced' = {t}
                /\ UNCHANGED <<loc, hist>>
    /\ UNCHANGED <<precomputedPaddingData, ri, gs, each, profiles, mw, given, req, header, log>>

\* paddings.go:24-29: under the lock, return if the flag is set, else set it;
\* unlock either way.
WH_Check(t) ==
    /\ pc[t] = "wh_check"
    /\ IF prw.wroteHeader
           THEN /\ prw' = [prw EXCEPT !.mu = 0]
                /\ pc' = [pc EXCEPT ![t] = ReturnPc(t)]
                /\ loc' = [loc EXCEPT ![t] = ReturnLoc(t)]
                /\ hist' = ReturnHist(t)
                /\ UNCHANGED synced
           ELSE /\ prw' = [prw EXCEPT !.wroteHeader = TRUE, !.mu = 0]
                /\ pc' = [pc EXCEPT ![t] = "wh_sample"]
                /\ synced' = {t}
                /\ UNCHANGED <<loc, hist>>
    /\ UNCHANGED <<precomputedPaddingData, ri, gs, each, profiles, mw, given, req, header, log>>

\* WH_Sample that returns from WriteHeader when the draw fails
WH_Sample_FailClosed(t) ==
    /\ pc[t] = "wh_sample"
    /\ \E o \in randInt(optsProfile.MinLength, optsProfile.MaxLength) :
          /\ hist' = IF o.kind = "err" /\ loc[t].ret # "Write"
                         THEN [hist EXCEPT ![loc[t].call].draw = o,
                                           ![loc[t].call].returned = TRUE]
                         ELSE [hist EXCEPT ![loc[t].call].draw = o]
          /\ loc' = [loc EXCEPT ![t] =
                        IF o.kind = "err" THEN ReturnLoc(t) ELSE [@ EXCEPT !.draw = o]]
          /\ pc' = [pc EXCEPT ![t] =
                        IF o.kind = "panic" THEN "panicked"
                        ELSE IF o.kind = "err" THEN ReturnPc(t)
                        ELSE IF o.val > 0 THEN "wh_pad"
                        ELSE "wh_commit"]
    /\ UNCHANGED <<precomputedPaddingData, ri, gs, each, profiles, mw, given, req, prw, header,
                   log, synced>>

\* paddings.go:31-35: randInt over the installed profile
WH_Sample(t) ==
    /\ pc[t] = "wh_sample"
    /\ \E o \in randInt(optsProfile.MinLength, optsProfile.MaxLength) :
          /\ loc' = [loc EXCEPT ![t].draw = o]
          /\ hist' = [hist EXCEPT ![loc[t].call].draw = o]
          /\ pc' = [pc EXCEPT ![t] =
                        IF o.kind = "panic" THEN "panicked"
                        ELSE IF o.kind = "ok" /\ o.val > 0 THEN "wh_pad"
                        ELSE "wh_commit"]
    /\ UNCHANGED <<precomputedPaddingData, ri, gs, each, profiles, mw, given, req, prw, header,
                   log, synced>>

\* paddings.go:36-37: the slice, then prw.Header().Set(name, string(slice))
WH_Pad(t) ==
    /\ pc[t] = "wh_pad"
    /\ \E s \in getPaddingSlice(loc[t].draw.val) :
          IF s.kind = "panic"
              THEN /\ pc' = [pc EXCEPT ![t] = "panicked"]
                   /\ UNCHANGED <<header, log, hist>>
              ELSE /\ header' = HeaderSet(header, mw.HeaderName, s.data)
                   /\ log' = Append(log, [op |-> "Header.Set", key |-> mw.HeaderName,
                                          value |-> s.data])
                   /\ hist' = [hist EXCEPT ![loc[t].call].slice =
                                   [used |-> TRUE, start |-> s.start, fell |-> s.fell]]
                   /\ pc' = [pc EXCEPT ![t] = "wh_commit"]
    /\ UNCHANGED <<precomputedPaddingData, ri, gs, each, profiles, mw, given, req, prw, loc,
                   synced>>

\* paddings.go:40: prw.ResponseWriter.WriteHeader(statusCode); the wrapped
\* writer commits the status with the header collection as it is now.
WH_Commit(t) ==
    /\ pc[t] = "wh_commit"
    /\ log' = Append(log, [op |-> "WriteHeader", code |-> loc[t].statusCode,
                           header |-> header])
    /\ pc' = [pc EXCEPT ![t] = ReturnPc(t)]
    /\ loc' = [loc EXCEPT ![t] = ReturnLoc(t)]
    /\ hist' = ReturnHist(t)
    /\ UNCHANGED <<precomputedPaddingData, ri, gs, each, profiles, mw, given, req, prw, header,
                   synced>>

\* What the unsynchronised read of prw.wroteHeader at paddings.go:47 can
\* return: the flag, or, when the write of another goroutine is not ordered
\* before the read by the lock, still false.
FastReads(t) ==
    {prw.wroteHeader} \cup (IF prw.wroteHeader /\ t \notin synced THEN {FALSE} ELSE {})

\* paddings.go:47, the fast-path check
W_Fast(t) ==
    /\ pc[t] = "w_fast"
    /\ \E v \in FastReads(t) :
          pc' = [pc EXCEPT ![t] = IF v THEN "w_body" ELSE "w_lock"]
    /\ UNCHANGED <<precomputedPaddingData, ri, gs, each, profiles, mw, given, req, prw, header,
                   log, loc, hist, synced>>

\* paddings.go:48, prw.mu.Lock()
W_Lock(t) ==
    /\ pc[t] = "w_lock"
    /\ prw.mu = 0
    /\ prw' = [prw EXCEPT !.mu = t]
    /\ synced' = IF prw.wroteHeader THEN synced \cup {t} ELSE synced
    /\ pc' = [pc EXCEPT ![t] = "w_recheck"]
    /\ UNCHANGED <<precomputedPaddingData, ri, gs, each, profiles, mw, given, req, header, log,
                   loc, hist>>

\* W_Recheck that never calls WriteHeader
W_Recheck_NoCall(t) ==
    /\ pc[t] = "w_recheck"
    /\ prw' = [prw EXCEPT !.mu = 0]
    /\ pc' = [pc EXCEPT ![t] = "w_body"]
    /\ UNCHANGED <<precomputedPaddingData, ri, gs, each, profiles, mw, given, req, header, log,
                   loc, hist, synced>>

\* W_Recheck that calls WriteHeader before Unlock
W_Recheck_HoldLock(t) ==
    /\ pc[t] = "w_recheck"
    /\ IF ~prw.wroteHeader
           THEN /\ pc' = [pc EXCEPT ![t] = "wh_lock"]
                /\ loc' = [loc EXCEPT ![t].statusCode = StatusOK, ![t].ret = "Write"]
                /\ UNCHANGED prw
           ELSE /\ pc' = [pc EXCEPT ![t] = "w_body"]
                /\ prw' = [prw EXCEPT !.mu = 0]
                /\ UNCHANGED loc
    /\ UNCHANGED <<precomputedPaddingData, ri, gs, each, profiles, mw, given, req, header, log,
                   hist, synced>>

\* paddings.go:50-55: the re-check under the lock; unlock, and when the flag
\* is still unset call prw.WriteHeader(http.StatusOK).
W_Recheck(t) ==
    /\ pc[t] = "w_recheck"
    /\ prw' = [prw EXCEPT !.mu = 0]
    /\ IF ~prw.wroteHeader
           THEN /\ pc' = [pc EXCEPT ![t] = "wh_lock"]
                /\ loc' = [loc EXCEPT ![t].statusCode = StatusOK, ![t].ret = "Write"]
           ELSE /\ pc' = [pc EXCEPT ![t] = "w_body"]
                /\ UNCHANGED loc
    /\ UNCHANGED <<precomputedPaddingData, ri, gs, each, profiles, mw, given, req, header, log,
                   hist, synced>>

\* paddings.go:57: prw.ResponseWriter.Write(data)
W_Body(t) ==
    /\ pc[t] = "w_body"
    /\ log' = Append(log, [op |-> "Write", data |-> loc[t].data])
    /\ pc' = [pc EXCEPT ![t] = "idle"]
    /\ loc' = [loc EXCEPT ![t] = NoLocals]
    /\ hist' = [hist EXCEPT ![loc[t].call].returned = TRUE]
    /\ UNCHANGED <<precomputedPaddingData, ri, gs, each, profiles, mw, given, req, prw, header,
                   synced>>

(***************************************************************************)
(* Concurrent requests, each with its own response wrapper                 *)
(*                                                                         *)
(* ToukaPaddingS's closure runs once per request, on the goroutine of the  *)
(* request, and makes a new paddingResponseWriter each time.  each[w] is   *)
(* the wrapper of request w with the position and locals of its handler,   *)
(* which calls Write once.  The wrappers share the package's pool, the     *)
(* installed options and the entropy source, and nothing else.             *)
(***************************************************************************)

\* Request w has not arrived.
NoResponse ==
    [live |-> FALSE, wroteHeader |-> FALSE, mu |-> 0, header |-> EmptyHeader,
     header0 |-> EmptyHeader, log |-> <<>>, pc |-> "idle", statusCode |-> 0,
     data |-> "", ret |-> "", draw |-> NoDraw, slice |-> NoSlice]

EachFrame ==
    /\ UNCHANGED <<precomputedPaddingData, ri, gs, profiles, mw, given, req>>
    /\ UNCHANGED respVars

\* paddings.go:85-96 for request w: the writer, whose header collection is h,
\* is wrapped (wroteHeader false, mu unlocked).
Each_Handler(w, h) ==
    /\ mw.kind = "Server"
    /\ ~each[w].live
    /\ each' = [each EXCEPT ![w] =
                   [NoResponse EXCEPT !.live = TRUE, !.header = h, !.header0 = h]]
    /\ EachFrame

\* The handler of request w calls prw.Write(data), once.
Each_CallWrite(w, data) ==
    /\ each[w].live
    /\ each[w].pc = "idle"
    /\ each' = [each EXCEPT ![w].pc = "w_fast", ![w].data = data]
    /\ EachFrame

\* paddings.go:47; the wrapper has one caller, so the read sees the flag.
Each_W_Fast(w) ==
    /\ each[w].pc = "w_fast"
    /\ each' = [each EXCEPT ![w].pc = IF each[w].wroteHeader THEN "w_body" ELSE "w_lock"]
    /\ EachFrame

\* paddings.go:48
Each_W_Lock(w) ==
    /\ each[w].pc = "w_lock"
    /\ each[w].mu = 0
    /\ each' = [each EXCEPT ![w].mu = w, ![w].pc = "w_recheck"]
    /\ EachFrame

\* paddings.go:50-55
Each_W_Recheck(w) ==
    /\ each[w].pc = "w_recheck"
    /\ each' = [each EXCEPT
                   ![w].mu = 0,
                   ![w].pc = IF ~each[w].wroteHeader THEN "wh_lock" ELSE "w_body",
                   ![w].statusCode = IF ~each[w].wroteHeader THEN StatusOK ELSE @,
                   ![w].ret = IF ~each[w].wroteHeader THEN "Write" ELSE @]
    /\ EachFrame

\* paddings.go:23
Each_WH_Lock(w) ==
    /\ each[w].pc = "wh_lock"
    /\ each[w].mu = 0
    /\ each' = [each EXCEPT ![w].mu = w, ![w].pc = "wh_check"]
    /\ EachFrame

\* Each_WH_Check with one flag for all wrappers (that of wrapper 1), as a
\* package-level wroteHeader would be
Each_WH_Check_Shared(w) ==
    /\ each[w].pc = "wh_check"
    /\ each' = IF each[1].wroteHeader
                   THEN [each EXCEPT ![w].mu = 0, ![w].pc = "w_body", ![w].ret = ""]
                   ELSE [[each EXCEPT ![w].mu = 0, ![w].pc = "wh_sample"]
                            EXCEPT ![1].wroteHeader = TRUE]
    /\ EachFrame

\* paddings.go:24-29
Each_WH_Check(w) ==
    /\ each[w].pc = "wh_check"
    /\ each' = IF each[w].wroteHeader
                   THEN [each EXCEPT ![w].mu = 0, ![w].pc = "w_body", ![w].ret = ""]
                   ELSE [each EXCEPT ![w].mu = 0, ![w].wroteHeader = TRUE,
                                     ![w].pc = "wh_sample"]
    /\ EachFrame

\* paddings.go:31-35
Each_WH_Sample(w) ==
    /\ each[w].pc = "wh_sample"
    /\ \E o \in randInt(optsProfile.MinLength, optsProfile.MaxLength) :
          each' = [each EXCEPT
                      ![w].draw = o,
                      ![w].pc = IF o.kind = "panic" THEN "panicked"
                                ELSE IF o.kind = "ok" /\ o.val > 0 THEN "wh_pad"
                                ELSE "wh_commit"]
    /\ EachFrame

\* paddings.go:36-37: the slice of the shared pool, then Header().Set
Each_WH_Pad(w) ==
    /\ each[w].pc = "wh_pad"
    /\ \E s \in getPaddingSlice(each[w].draw.val) :
          each' = IF s.kind = "panic"
                      THEN [each EXCEPT ![w].pc = "panicked"]
                      ELSE [each EXCEPT
                               ![w].header = HeaderSet(@, mw.HeaderName, s.data),
                               ![w].log = Append(@, [op |-> "Header.Set",
                                                     key |-> mw.HeaderName,
                                                     value |-> s.data]),
                               ![w].slice = [used |-> TRUE, start |-> s.start,
                                             fell |-> s.fell],
                               ![w].pc = "wh_commit"]
    /\ EachFrame

\* paddings.go:40, then the return into Write
Each_WH_Commit(w) ==
    /\ each[w].pc = "wh_commit"
    /\ each' = [each EXCEPT
                   ![w].log = Append(@, [op |-> "WriteHeader",
                                         code |-> each[w].statusCode,
                                         header |-> each[w].header]),
                   ![w].pc = "w_body",
                   ![w].ret = ""]
    /\ EachFrame

\* paddings.go:57, then Write returns to the handler, which is done.
Each_W_Body(w) ==
    /\ each[w].pc = "w_body"
    /\ each' = [each EXCEPT
                   ![w].log = Append(@, [op |-> "Write", data |-> each[w].data]),
                   ![w].pc = "done"]
    /\ EachFrame

(***************************************************************************)
(* Specifications                                                          *)
(***************************************************************************)

Init ==
    /\ precomputedPaddingData \in PoolInit
    /\ profiles = [p \in ProfilePtrs |->
                      CASE p = "ProfileDefault" -> [MinLength |-> 96, MaxLength |-> 1024]
                        [] p = "ProfileShort" -> [MinLength |-> 32, MaxLength |-> 256]
                        [] p = "ProfileLong" ->
                               [MinLength |-> 1024, MaxLength |-> maxPaddingSize]
                        [] OTHER -> [MinLength |-> 0, MaxLength |-> 0]]
    /\ mw = [kind |-> NIL, HeaderName |-> "", Profile |-> "custom"]
    /\ given = [ptr |-> NIL, MinLength |-> 0, MaxLength |-> 0]
    /\ req = [seen |-> FALSE, in |-> NilHeader, Header |-> NilHeader, draw |-> NoDraw,
              slice |-> NoSlice, next |-> 0]
    /\ prw = [live |-> FALSE, wroteHeader |-> FALSE, mu |-> 0, callers |-> {},
              header0 |-> EmptyHeader]
    /\ ri = [called |-> FALSE, min |-> 0, max |-> 0, out |-> NoDraw]
    /\ gs = [called |-> FALSE, length |-> 0, out |-> NoView]
    /\ each = [w \in Callers |-> NoResponse]
    /\ header = EmptyHeader
    /\ log = <<>>
    /\ pc = [t \in Callers |-> "idle"]
    /\ loc = [t \in Callers |-> NoLocals]
    /\ hist = <<>>
    /\ synced = {}

\* The steps of the calls in flight on the wrapper
Step(t) ==
    \/ WH_Lock(t)
    \/ WH_Check(t)
    \/ WH_Sample(t)
    \/ WH_Pad(t)
    \/ WH_Commit(t)
    \/ W_Fast(t)
    \/ W_Lock(t)
    \/ W_Recheck(t)
    \/ W_Body(t)

\* One handler goroutine: every call on the wrapper returns before the next.
Next ==
    \/ \E name \in HeaderNameArgs, parg \in ProfileArgs : ToukaPadding(name, parg)
    \/ \E name \in HeaderNameArgs, parg \in ProfileArgs : ToukaPaddingH(name, parg)
    \/ \E name \in HeaderNameArgs, parg \in ProfileArgs : ToukaPaddingS(name, parg)
    \/ \E h \in ReqHeaders : RoundTrip(h)
    \/ \E h \in ReqHeaders : ServeHTTP(h)
    \/ \E h \in RespHeaders : Handler(h, {1})
    \/ \E code \in StatusCodes : CallWriteHeader(1, code)
    \/ \E data \in Bodies : CallWrite(1, data)
    \/ Step(1)

Spec == Init /\ [][Next]_vars

\* The installation of the concurrent runs: a profile whose draws cover a
\* padded response, a sampled length of 0 and a failed draw.
ConcProfileArgs == {[ptr |-> "custom", MinLength |-> 0, MaxLength |-> 2]}

\* Handler goroutines that share one wrapper: their calls interleave step by
\* step.
NextConc ==
    \/ \E parg \in ConcProfileArgs : ToukaPaddingS("X-Pad", parg)
    \/ Handler(UsedHeader, Callers)
    \/ \E t \in Callers : CallWriteHeader(t, 404)
    \/ \E t \in Callers, data \in Bodies : CallWrite(t, data)
    \/ \E t \in Callers : Step(t)

SpecConc == Init /\ [][NextConc]_vars

\* The concurrent runs with scheduling: a goroutine whose next step stays
\* possible takes it (the Go scheduler runs every runnable goroutine, and the
\* calls into the wrapped writer return).
SpecConcFair == SpecConc /\ \A t \in Callers : WF_vars(Step(t))

\* The installation of the runs with one wrapper per request: every length
\* of the profile is positive.
EachProfileArgs == {[ptr |-> "custom", MinLength |-> 2, MaxLength |-> 3]}

\* The steps of the Write call of request w
EachStep(w) ==
    \/ Each_W_Fast(w)
    \/ Each_W_Lock(w)
    \/ Each_W_Recheck(w)
    \/ Each_WH_Lock(w)
    \/ Each_WH_Check(w)
    \/ Each_WH_Sample(w)
    \/ Each_WH_Pad(w)
    \/ Each_WH_Commit(w)
    \/ Each_W_Body(w)

\* NumCallers requests in flight at once, one wrapper and one Write each.
NextEach ==
    \/ \E parg \in EachProfileArgs : ToukaPaddingS("X-Pad", parg)
    \/ \E w \in Callers : Each_Handler(w, UsedHeader)
    \/ \E w \in Callers, data \in Bodies : Each_CallWrite(w, data)
    \/ \E w \in Callers : EachStep(w)

SpecEach == Init /\ [][NextEach]_vars

(***************************************************************************)
(* randInt called directly                                                 *)
(***************************************************************************)

\* Arguments of the direct calls: small values, the bounds of the profiles
\* and the ends of int.
IntArgs == {MinInt, -3, 0, 1, 2, 10, 96, maxPaddingSize, MaxInt}

\* randInt(min, max) is called and returns (or panics).
CallRandInt(min, max) ==
    /\ \E o \in randInt(min, max) :
          ri' = [called |-> TRUE, min |-> min, max |-> max, out |-> o]
    /\ UNCHANGED <<precomputedPaddingData, gs, each, profiles, mw, given, req>>
    /\ UNCHANGED respVars

NextRandInt == \E min \in IntArgs, max \in IntArgs : CallRandInt(min, max)

SpecRandInt == Init /\ [][NextRandInt]_vars

(***************************************************************************)
(* getPaddingSlice called directly                                         *)
(***************************************************************************)

\* Lengths of the direct calls: around 0, short ones, around the capacity,
\* and the ends of int.
SliceLengthArgs ==
    {MinInt, MaxInt, 5000}
        \cup (-2..40)
        \cup ((maxPaddingSize - 3)..(maxPaddingSize + 1))

\* getPaddingSlice(length) is called and returns.
CallGetPaddingSlice(length) ==
    /\ \E s \in getPaddingSlice(length) :
          gs' = [called |-> TRUE, length |-> length, out |-> s]
    /\ UNCHANGED <<precomputedPaddingData, ri, each, profiles, mw, given, req>>
    /\ UNCHANGED respVars

NextSlice == \E length \in SliceLengthArgs : CallGetPaddingSlice(length)

SpecSlice == Init /\ [][NextSlice]_vars

\* Arguments of the runs that call both helpers: short spans, where the
\* model's entropy source returns every value, and the ends of int.
DirectIntArgs == {MinInt, -3, 0, 1, 2, 3, MaxInt}

DirectLengthArgs ==
    {1, 10, 5000} \cup ((maxPaddingSize - 3)..maxPaddingSize)

\* Direct calls of both helpers
NextDirect ==
    \/ \E min \in DirectIntArgs, max \in DirectIntArgs : CallRandInt(min, max)
    \/ \E length \in DirectLengthArgs : CallGetPaddingSlice(length)

SpecDirect == Init /\ [][NextDirect]_vars

(***************************************************************************)
(* Claims                                                                  *)
(***************************************************************************)

\* The places in log of the calls op received by the wrapped writer
Ops(op) == {i \in DOMAIN log : log[i].op = op}

\* C1: on one wrapper, however WriteHeader and Write calls of several
\* goroutines interleave, the wrapped writer's WriteHeader is called at most
\* once and the padding header is set at most once.
C1_AtMostOnce ==
    /\ Cardinality(Ops("WriteHeader")) <= 1
    /\ Cardinality(Ops("Header.Set")) <= 1

\* C1 witness: a Write found the flag unset under the lock, unlocked and is
\* about to call WriteHeader(200), while the WriteHeader of another goroutine
\* got in between, set the padding header and committed.
C1_Witness ==
    \E t \in Callers :
        /\ pc[t] = "wh_lock" /\ loc[t].ret = "Write"
        /\ prw.wroteHeader
        /\ Ops("Header.Set") # {}
        /\ Ops("WriteHeader") # {}

\* C2, as claimed: in every interleaving, a body write reaches the wrapped
\* writer only after the wrapped writer's WriteHeader was called, and the
\* padding header, when one is set, is set before the first body write.
C2_HeadersBeforeBody ==
    \A i \in Ops("Write") :
        /\ \E j \in Ops("WriteHeader") : j < i
        /\ \A k \in Ops("Header.Set") : k < i

\* Whether call i on the wrapper drew a positive padding length
Padded(i) == hist[i].draw.kind = "ok" /\ hist[i].draw.val > 0

\* C3: WriteHeader called twice in sequence on one wrapper.  During and after
\* the second call the wrapped writer has received WriteHeader exactly once,
\* with the first call's status code, as the last call it received; the
\* header collection is the one committed then; the padding header was set
\* once (when the first call drew a positive length; not at all otherwise);
\* the second call draws nothing and does not panic.
C3_SecondWriteHeaderNoOp ==
    (Len(hist) = 2 /\ hist[1].op = "WriteHeader" /\ hist[2].op = "WriteHeader")
        => /\ pc[1] # "panicked"
           /\ Cardinality(Ops("WriteHeader")) = 1
           /\ \A i \in Ops("WriteHeader") :
                 /\ log[i].code = hist[1].code
                 /\ i = Len(log)
                 /\ log[i].header = header
           /\ Cardinality(Ops("Header.Set")) = IF Padded(1) THEN 1 ELSE 0
           /\ hist[2].draw = NoDraw

\* C3 witness: WriteHeader(404) then WriteHeader(200) have both returned and
\* the first one set the padding header.
C3_Witness ==
    /\ Len(hist) = 2
    /\ hist[1].op = "WriteHeader" /\ hist[1].code = 404 /\ hist[1].returned
    /\ hist[2].op = "WriteHeader" /\ hist[2].code = StatusOK /\ hist[2].returned
    /\ Ops("Header.Set") # {}

\* The first body write the wrapped writer received
FirstWrite == CHOOSE w \in Ops("Write") : \A i \in Ops("Write") : w <= i

\* C4: the first call on a wrapper is Write (one caller).  When the body
\* reaches the wrapped writer, the call just before it was WriteHeader(200),
\* the only WriteHeader; and when the draw gave a positive length the call
\* before that was the Set of the padding header, whose value is in the
\* committed headers.  With no padding due, WriteHeader(200) is the first call.
C4_ImplicitHeaderOrder ==
    (Len(hist) >= 1 /\ hist[1].op = "Write" /\ Ops("Write") # {})
        => LET w == FirstWrite
           IN  /\ w >= 2
               /\ log[w - 1].op = "WriteHeader"
               /\ log[w - 1].code = StatusOK
               /\ Ops("WriteHeader") = {w - 1}
               /\ IF Padded(1)
                      THEN /\ w = 3
                           /\ log[1].op = "Header.Set"
                           /\ log[1].key = mw.HeaderName
                           /\ HeaderValues(log[2].header, mw.HeaderName)
                                  = <<log[1].value>>
                      ELSE w = 2

\* C4 witness: a first Write has returned; the wrapped writer received the
\* Set of the padding header, WriteHeader(200) and the body, in this order.
C4_Witness ==
    /\ Len(hist) >= 1 /\ hist[1].op = "Write" /\ hist[1].returned
    /\ Len(log) = 3
    /\ log[1].op = "Header.Set" /\ log[2].op = "WriteHeader" /\ log[3].op = "Write"

C6_FailOpen ==
    /\ req.seen => req.next = 1
    /\ (Len(hist) >= 1 /\ hist[1].op = "WriteHeader" /\ hist[1].returned)
          => /\ Cardinality(Ops("WriteHeader")) = 1
             /\ \A i \in Ops("WriteHeader") : log[i].code = hist[1].code

\* C6 witness: a first WriteHeader(404) whose length draw failed has returned.
C6_Witness ==
    /\ Len(hist) >= 1
    /\ hist[1].op = "WriteHeader" /\ hist[1].code = 404 /\ hist[1].returned
    /\ hist[1].draw.kind = "err"

\* C7, as claimed: once a middleware is installed, for every MinLength and
\* MaxLength given, 0 <= MinLength <= MaxLength <= maxPaddingSize.
C7_ProfileInRange ==
    mw.kind # NIL
        => /\ 0 <= optsProfile.MinLength
           /\ optsProfile.MinLength <= optsProfile.MaxLength
           /\ optsProfile.MaxLength <= maxPaddingSize

\* Whether v is exactly one header value of a length the profile allows
OnePaddingValue(v) ==
    /\ Len(v) = 1
    /\ optsProfile.MinLength <= RunLen(v[1])
    /\ RunLen(v[1]) <= optsProfile.MaxLength

\* C8: the installed profile has 1 <= MinLength <= MaxLength <= capacity and
\* no draw fails.  Then a processed outbound request, and the header
\* collection a response commits (and keeps), hold exactly one value under
\* HeaderName, of a length in [MinLength, MaxLength].
C8_HeaderPresent ==
    (/\ mw.kind # NIL
     /\ 1 <= optsProfile.MinLength
     /\ optsProfile.MinLength <= optsProfile.MaxLength
     /\ optsProfile.MaxLength <= maxPaddingSize)
        => /\ (req.seen /\ req.draw.kind = "ok" /\ ~req.slice.fell)
                 => /\ ~req.Header.nil
                    /\ OnePaddingValue(HeaderValues(req.Header.m, mw.HeaderName))
           /\ \A i \in Ops("WriteHeader") :
                 (hist[1].draw.kind = "ok" /\ ~hist[1].slice.fell)
                     => /\ OnePaddingValue(HeaderValues(log[i].header, mw.HeaderName))
                        /\ OnePaddingValue(HeaderValues(header, mw.HeaderName))

\* C8 witness: profile {10, 10}; a request that came with two values under
\* the header name leaves with one value of 10 bytes.
C8_Witness ==
    /\ given.ptr = "custom" /\ given.MinLength = 10 /\ given.MaxLength = 10
    /\ req.seen /\ req.draw.kind = "ok"
    /\ Len(HeaderValues(req.in.m, mw.HeaderName)) = 2
    /\ Len(HeaderValues(req.Header.m, mw.HeaderName)) = 1
    /\ RunLen(HeaderValues(req.Header.m, mw.HeaderName)[1]) = 10

\* C9: when the length drawn is 0 no header is set: an outbound request
\* leaves with the header collection it came with (a nil one stays nil), and
\* a response commits and keeps the header collection the wrapped writer had.
C9_ZeroLengthNoHeader ==
    /\ (req.seen /\ req.draw.kind = "ok" /\ req.draw.val = 0)
          => req.Header = req.in
    /\ \A i \in DOMAIN hist :
          (hist[i].draw.kind = "ok" /\ hist[i].draw.val = 0)
              => /\ Ops("Header.Set") = {}
                 /\ header = prw.header0
                 /\ \A j \in Ops("WriteHeader") : log[j].header = prw.header0

\* C9 witness: profile {0, 0}; a request with a nil header collection has
\* been processed and passed on.
C9_Witness ==
    /\ given.ptr = "custom" /\ given.MinLength = 0 /\ given.MaxLength = 0
    /\ req.seen /\ req.draw.kind = "ok" /\ req.draw.val = 0
    /\ req.in.nil
    /\ req.next = 1

\* C10, as claimed: for all int min <= max, when the entropy source does not
\* fail, randInt(min, max) returns without error a value in [min, max].
C10_InRange ==
    (ri.called /\ ri.min <= ri.max /\ ~ri.out.reader)
        => /\ ri.out.kind = "ok"
           /\ ri.min <= ri.out.val
           /\ ri.out.val <= ri.max

\* C11: randInt(min, max) with min > max returns (0, err): no value between
\* the bounds taken in either order, and the entropy source is not consulted.
C11_MinAboveMaxIsError ==
    (ri.called /\ ri.min > ri.max)
        => /\ ri.out.kind = "err"
           /\ ri.out.val = 0
           /\ ~ri.out.drew
           /\ ~ri.out.reader

\* C11 witness: randInt(10, 2) was called and returned an error.
C11_Witness ==
    /\ ri.called /\ ri.min = 10 /\ ri.max = 2
    /\ ri.out.kind = "err"

\* C12: randInt(min, max) with min = max returns (min, nil) and does not
\* consult the entropy source, so no failure of the source can reach it.
C12_EqualBoundsNoDraw ==
    (ri.called /\ ri.min = ri.max)
        => /\ ri.out.kind = "ok"
           /\ ri.out.val = ri.min
           /\ ~ri.out.drew
           /\ ~ri.out.reader

\* C12 witness: randInt(96, 96) was called and returned 96.
C12_Witness ==
    /\ ri.called /\ ri.min = 96 /\ ri.max = 96
    /\ ri.out.kind = "ok" /\ ri.out.val = 96

\* The length getPaddingSlice works with after its clamp (length > 0)
Clamped(length) == IF length > maxPaddingSize THEN maxPaddingSize ELSE length

\* C13: getPaddingSlice(length) returns no bytes for length <= 0, exactly
\* maxPaddingSize bytes for length > maxPaddingSize and exactly length bytes
\* in between; the bytes returned are those of the pool from an offset start
\* with 0 <= start <= maxPaddingSize - length' (length' the clamped length),
\* so the view ends at or before the end of the pool.
C13_SliceLength ==
    gs.called
        => /\ gs.out.kind = "ok"
           /\ IF gs.length <= 0
                  THEN gs.out.data = <<>>
                  ELSE /\ RunLen(gs.out.data) = Clamped(gs.length)
                       /\ 0 <= gs.out.start
                       /\ gs.out.start <= maxPaddingSize - Clamped(gs.length)
                       /\ gs.out.start + RunLen(gs.out.data)
                              <= RunLen(precomputedPaddingData)
                       /\ gs.out.data
                              = RunSlice(precomputedPaddingData, gs.out.start,
                                         gs.out.start + Clamped(gs.length))

\* C13 witness: getPaddingSlice(10) returned the last 10 bytes of the pool.
C13_Witness ==
    /\ gs.called /\ gs.length = 10
    /\ gs.out.start = maxPaddingSize - 10
    /\ RunLen(gs.out.data) = 10

\* The places in the log of wrapper w of the calls op
EachOps(w, op) == {i \in DOMAIN each[w].log : each[w].log[i].op = op}

\* C14, as claimed: with one wrapper per request and one Write each, in
\* every interleaving a response whose Write has returned had the padding
\* header set once and holds exactly one value under HeaderName, of a length
\* in the profile's range.
C14_EachExactlyOne ==
    \A w \in Callers :
        each[w].pc = "done"
            => /\ Cardinality(EachOps(w, "Header.Set")) = 1
               /\ OnePaddingValue(HeaderValues(each[w].header, mw.HeaderName))

\* What C14 says of a response whose Write has returned
EachPadded(w) ==
    /\ each[w].log[Len(each[w].log)].op = "Write"
    /\ Cardinality(EachOps(w, "Write")) = 1
    /\ Cardinality(EachOps(w, "WriteHeader")) = 1
    /\ IF each[w].draw.kind = "ok" /\ each[w].draw.val > 0
           THEN /\ Len(each[w].log) = 3
                /\ each[w].log[1].op = "Header.Set"
                /\ each[w].log[2].op = "WriteHeader"
                /\ OnePaddingValue(HeaderValues(each[w].header, mw.HeaderName))
                /\ HeaderValues(each[w].header, mw.HeaderName)
                       = <<RunSlice(precomputedPaddingData, each[w].slice.start,
                                    each[w].slice.start + each[w].draw.val)>>
                /\ each[w].log[2].header = each[w].header
           ELSE /\ \/ each[w].draw.kind = "err" /\ each[w].draw.reader
                   \/ each[w].draw.kind = "ok" /\ each[w].draw.val <= 0
                /\ Len(each[w].log) = 2
                /\ each[w].log[1].op = "WriteHeader"
                /\ each[w].header = each[w].header0

\* C14, amended: with one wrapper per request and one Write each, in every
\* interleaving a response whose Write has returned holds exactly one
\* padding header, of a length in the profile's range and with bytes of the
\* pool, set before the one WriteHeader(200) and the body, when its length
\* draw gave a positive length; when the entropy source failed on the length
\* draw (or the length drawn was not positive) it holds the headers it had,
\* with no padding header set.  No step changes the pool.
C14_EachPaddedOnce ==
    /\ [](\A w \in Callers : each[w].pc = "done" => EachPadded(w))
    /\ [][precomputedPaddingData' = precomputedPaddingData]_vars

\* C14 witness: every request is done, each response was padded from the
\* pool, two of them at different offsets.
C14_Witness ==
    /\ \A w \in Callers : each[w].pc = "done" /\ each[w].slice.used
    /\ \E v, w \in Callers : each[v].slice.start # each[w].slice.start

\* C15: mu is held only from Lock to the Unlock that follows the test (and
\* the set) of wroteHeader.  A caller that is drawing the length, taking the
\* slice and setting the header, or calling the wrapped writer's WriteHeader
\* or Write does not hold mu; whoever holds mu is at the test of the flag.
C15_LockOnlyAcrossCheckAndSet ==
    /\ \A t \in Callers :
          pc[t] \in {"wh_sample", "wh_pad", "wh_commit", "w_body"} => prw.mu # t
    /\ prw.mu # 0 => pc[prw.mu] \in {"wh_check", "w_recheck"}

\* C15 witness: one caller is about to take the slice and set the padding
\* header while another caller holds mu.
C15_Witness ==
    \E t, u \in Callers :
        /\ t # u
        /\ pc[t] = "wh_pad"
        /\ prw.mu = u

\* The Write calls on the wrapper that have returned
ReturnedWrites == {i \in DOMAIN hist : hist[i].op = "Write" /\ hist[i].returned}

\* C16: wroteHeader is false when the wrapper is made; a step that finds it
\* true leaves it true, whatever WriteHeader and Write calls follow; it is
\* true once a call of either entry point has returned; and every Write call
\* that returns, before or after, has passed its body to the wrapped writer.
C16_FlagOneWay ==
    /\ [][(~prw.live /\ prw'.live) => ~prw'.wroteHeader]_vars
    /\ [][prw.wroteHeader => prw'.wroteHeader]_vars
    /\ [](\A i \in DOMAIN hist : hist[i].returned => prw.wroteHeader)
    /\ [](Cardinality(ReturnedWrites) = Cardinality(Ops("Write")))

\* C16 witness: two Write calls in sequence have returned; the flag is set
\* and both bodies reached the wrapped writer after the one WriteHeader.
C16_Witness ==
    /\ Len(hist) = 2
    /\ hist[1].op = "Write" /\ hist[1].returned
    /\ hist[2].op = "Write" /\ hist[2].returned
    /\ prw.wroteHeader
    /\ Cardinality(Ops("Write")) = 2
    /\ Cardinality(Ops("WriteHeader")) = 1

\* C17: once a middleware is installed no step changes its options
\* (HeaderName, the profile it points to) or any profile object: not a
\* request through either client closure, not a step of WriteHeader or Write.
\* And the presets keep their values Default {96, 1024}, Short {32, 256},
\* Long {1024, 4096} through every installation, with a nil profile, with a
\* preset or with a profile of the caller.
C17_OptionsUnchanged ==
    /\ [][mw.kind # NIL => (mw' = mw /\ profiles' = profiles)]_vars
    /\ [](/\ profiles["ProfileDefault"] = [MinLength |-> 96, MaxLength |-> 1024]
          /\ profiles["ProfileShort"] = [MinLength |-> 32, MaxLength |-> 256]
          /\ profiles["ProfileLong"] = [MinLength |-> 1024, MaxLength |-> 4096])

\* C17 witness: the round-tripper middleware was installed with ProfileLong
\* and has padded a request.
C17_Witness ==
    /\ mw.kind = "RoundTripper"
    /\ given.ptr = "ProfileLong"
    /\ req.seen /\ req.slice.used

\* C18: with any of the callers running at once, a caller that is about to
\* Lock (in WriteHeader, called from the handler or from Write, or in Write)
\* does not hold mu already; mu is free when no call is in flight; and every
\* call of WriteHeader or Write that has started returns: the calls of a run
\* being finitely many, from some point on no call is in flight.
C18_CallsTerminate ==
    /\ [](\A t \in Callers : pc[t] \in {"wh_lock", "w_lock"} => prw.mu # t)
    /\ []((\A t \in Callers : pc[t] = "idle") => prw.mu = 0)
    /\ <>[](\A t \in Callers : pc[t] = "idle")

\* C18 witness: a Write found the flag unset, unlocked and now waits for mu
\* inside WriteHeader, while another caller holds mu.
C18_Witness ==
    \E t, u \in Callers :
        /\ t # u
        /\ pc[t] = "wh_lock" /\ loc[t].ret = "Write"
        /\ prw.mu = u

\* Whether draw d explains a message without padding: the entropy source
\* failed, or the length drawn is not positive
Unpaddable(d) ==
    \/ d.kind = "err" /\ d.reader
    \/ d.kind = "ok" /\ d.val <= 0

\* C19: whatever profile was given, the installed one has MinLength <=
\* MaxLength, so no length draw of a client closure or of WriteHeader returns
\* randInt's min > max error (an error comes from the entropy source only),
\* and a request passed on, or a response committed, without a padding header
\* had a failed entropy source or drew a length <= 0.
C19_NoRangeError ==
    /\ mw.kind # NIL => optsProfile.MinLength <= optsProfile.MaxLength
    /\ req.seen
          => /\ req.draw.kind = "err" => req.draw.reader
             /\ ~req.slice.used => Unpaddable(req.draw)
    /\ \A i \in DOMAIN hist : hist[i].draw.kind = "err" => hist[i].draw.reader
    /\ (Ops("WriteHeader") # {} /\ Ops("Header.Set") = {})
          => \E i \in DOMAIN hist : Unpaddable(hist[i].draw)

\* C19 witness: the profile given was {10, 2}; it was installed as {2, 2} and
\* a request was padded with the 2 bytes drawn.
C19_Witness ==
    /\ given.ptr = "custom" /\ given.MinLength = 10 /\ given.MaxLength = 2
    /\ optsProfile = [MinLength |-> 2, MaxLength |-> 2]
    /\ req.seen /\ req.draw.kind = "ok" /\ req.draw.val = 2
    /\ req.slice.used

\* The values of [lo, hi], lo <= hi, that the claims about possible results
\* ask for: both ends, and every value between when the model's entropy
\* source returns every value of a span that short.
Asked(lo, hi) ==
    {lo, hi} \cup
        (IF WrapSub(hi, lo) >= 0 /\ WrapSub(hi, lo) < 2 * MaxDraw THEN lo..hi ELSE {})

\* C20, as claimed: for all int min < max every value of [min, max], both
\* ends included, is a possible result of randInt(min, max) and no other
\* value is; and for every length > 0 every offset of [0, maxPaddingSize -
\* length'] (length' the clamped length) is a possible start of the slice
\* getPaddingSlice(length) returns.
C20_ExactSpan ==
    /\ (ri.called /\ ri.min < ri.max)
          => /\ \A o \in randInt(ri.min, ri.max) :
                   o.kind = "ok" => (ri.min <= o.val /\ o.val <= ri.max)
             /\ \A v \in Asked(ri.min, ri.max) :
                   \E o \in randInt(ri.min, ri.max) : o.kind = "ok" /\ o.val = v
    /\ (gs.called /\ gs.length > 0)
          => \A v \in Asked(0, maxPaddingSize - Clamped(gs.length)) :
                \E s \in getPaddingSlice(gs.length) :
                    s.kind = "ok" /\ ~s.fell /\ s.start = v

====
